---- MODULE Spec2Model ----
(***************************************************************************)
(* DashboardHome (src/src/pages/DashboardHome.tsx): the client state of    *)
(* the dashboard view, the requests it has in flight, and the server the   *)
(* requests are answered by.  One action per handler or continuation of    *)
(* the component; the server and the user are the environment.  The server *)
(* handles a request at the moment it is issued; its response then travels *)
(* for an arbitrary time, and may be lost, before the continuation runs.   *)
(***************************************************************************)
EXTENDS Integers, Sequences, FiniteSets, TLC

VARIABLES
    categories,       \* useState<Category[]>            (line 41)
    dashboardStats,   \* useState<DashboardStats>        (line 42)
    quickStats,       \* useState<QuickStats>            (line 48)
    isLoading,        \* useState(false)                 (line 53)
    error,            \* useState('')                    (line 54)
    showForm,         \* useState(false)                 (line 55)
    editingCategory,  \* useState<Category | null>(null) (line 56)
    formData,         \* useState({...})                 (line 58)
    mounted,          \* whether the mount effect (line 137) has run
    inflight,         \* requests issued through api whose await has not returned,
                      \* in the order they were issued
    writes,           \* how many create, update and archive requests were issued
    serverCats,       \* the server's active categories, in response order
    serverNextId,     \* the next category_id the server assigns
    serverStats,      \* the server's current summary
    last              \* the last step taken: the operation and the view before it

vars == <<categories, dashboardStats, quickStats, isLoading, error, showForm,
          editingCategory, formData, mounted, inflight, writes, serverCats,
          serverNextId, serverStats, last>>

client == <<categories, dashboardStats, quickStats, isLoading, error, showForm,
            editingCategory, formData>>

server == <<serverCats, serverNextId, serverStats>>

-----------------------------------------------------------------------------
(* Bounds of the model *)

\* create + update + archive requests of one session
MaxWrites == 2

\* the user starts a create, update or archive only while fewer requests than
\* this are in flight
MaxInFlight == 2

-----------------------------------------------------------------------------
(* Values *)

\* a JavaScript undefined in a string-typed slot
Undefined == "<undefined>"

\* x || d
OrElse(x, d) == IF x \in {Undefined, ""} THEN d ELSE x

\* null in the Category-typed slot editingCategory
NullCategory ==
    [category_id |-> 0, category_name |-> Undefined,
     category_description |-> Undefined, who_edited |-> Undefined]

EmptyForm == [category_name |-> "", category_description |-> "", who_edited |-> ""]

InitialStats ==
    [total_books |-> 0, available_books |-> 0, active_borrowers |-> 0,
     total_transactions |-> 0]

InitialQuickStats ==
    [books_added_today |-> 0, books_borrowed_today |-> 0, books_returned_today |-> 0]

PlaceholderQuickStats ==
    [books_added_today |-> 2, books_borrowed_today |-> 5, books_returned_today |-> 3]

\* what the user types into a field of the form
InputValues == {"Sci-Fi"}

\* the summary the server holds
ServerStats ==
    [total_books |-> 100, available_books |-> 45, active_borrowers |-> 7,
     total_transactions |-> 120]

\* the categories the server starts with
InitialServerCats ==
    << [category_id |-> 1, category_name |-> "Fiction",
        category_description |-> "Novels", who_edited |-> Undefined] >>

\* the `message` of a response body
ServerMessage == "The category name has already been taken."

\* a body without `data`
NoData == << >>

\* response bodies { success, data, message, errors }; `errors` is the sequence
\* of the entries <<field, messages>> of the map (Object.values follows
\* insertion order), hasErrors whether the body carries the key at all
OkBody(data) ==
    [success |-> TRUE, data |-> data, message |-> Undefined,
     hasErrors |-> FALSE, errors |-> << >>]

Failure(message, hasErrors, errors) ==
    [success |-> FALSE, data |-> NoData, message |-> message,
     hasErrors |-> hasErrors, errors |-> errors]

PlainFailure == Failure(Undefined, FALSE, << >>)

\* the bodies with success = false the server answers a submit or an archive with
FailureBodies ==
    { PlainFailure,
      Failure(ServerMessage, FALSE, << >>),
      Failure(Undefined, TRUE, << <<"category_name", <<"Name required">> >> >>),
      Failure(ServerMessage, TRUE,
              << <<"who_edited", <<"Too long">> >>,
                 <<"category_name", <<"Name required">> >> >>),
      Failure(ServerMessage, TRUE, << <<"category_name", << >> >> >>),
      Failure(Undefined, TRUE, << >>) }

\* what a rejected request is rejected with: error.response?.data
NoResponse == [hasResponse |-> FALSE, data |-> PlainFailure]

Rejections ==
    {NoResponse} \cup [hasResponse : {TRUE}, data : FailureBodies]

-----------------------------------------------------------------------------
(* Requests *)

Kinds == {"summary", "list", "create", "update", "archive"}

Fetches == {"summary", "list"}

\* issue one more request of `kind` on top of the requests fl; `accepted` and
\* `body` are what the server made of it
Issue(fl, kind, arg, accepted, body) ==
    Append(fl, [kind |-> kind, arg |-> arg, accepted |-> accepted, body |-> body])

\* the requests fl without the i-th, whose await returned
Settle(fl, i) == [j \in 1..(Len(fl) - 1) |-> IF j < i THEN fl[j] ELSE fl[j + 1]]

\* the requests of `kind` among fl
OfKind(fl, kind) == SelectSeq(fl, LAMBDA r : r.kind = kind)

\* the bodies the await of the fetch k can return, as a tuple: the server's
\* answer, or a body with success = false
FetchAnswers(k) == <<inflight[k].body, PlainFailure>>

\* the bodies the await of the submit or archive k can return
Answers(k) == IF inflight[k].accepted THEN {inflight[k].body} ELSE FailureBodies

View ==
    IF ~showForm THEN "Idle"
    ELSE IF editingCategory = NullCategory THEN "Creating" ELSE "Editing"

Step(op) == [op |-> op, from |-> View]

-----------------------------------------------------------------------------
(* The server: the endpoints of section 6 of the specification *)

ServerIds == {serverCats[i].category_id : i \in 1..Len(serverCats)}

\* POST /create/categories
ServerCreate(in) ==
    /\ serverCats' = Append(serverCats,
                            [category_id |-> serverNextId,
                             category_name |-> in.category_name,
                             category_description |-> in.category_description,
                             who_edited |-> in.who_edited])
    /\ serverNextId' = serverNextId + 1
    /\ UNCHANGED serverStats

\* POST /update/categories/{id}
ServerUpdate(id, in) ==
    /\ id \in ServerIds
    /\ serverCats' = [i \in 1..Len(serverCats) |->
                        IF serverCats[i].category_id = id
                        THEN [category_id |-> id,
                              category_name |-> in.category_name,
                              category_description |-> in.category_description,
                              who_edited |-> in.who_edited]
                        ELSE serverCats[i]]
    /\ UNCHANGED <<serverNextId, serverStats>>

\* POST /archive/categories/{id}
ServerArchive(id) ==
    /\ id \in ServerIds
    /\ serverCats' = SelectSeq(serverCats, LAMBDA c : c.category_id # id)
    /\ UNCHANGED <<serverNextId, serverStats>>

-----------------------------------------------------------------------------
(* Fetches *)

\* fetchDashboardSummary up to the await: api.get('/dashboard/summary')
FetchDashboardSummary(fl) == Issue(fl, "summary", 0, TRUE, OkBody(serverStats))

\* a fetchCategories that aborts the category-list fetches still in flight
FetchCategoriesCancelling(fl) ==
    Issue(SelectSeq(fl, LAMBDA r : r.kind # "list"), "list", 0, TRUE, OkBody(serverCats))

\* fetchCategories up to the await: api.get('/categories')
FetchCategories(fl) == Issue(fl, "list", 0, TRUE, OkBody(serverCats))

\* fetchDashboardSummary after the await: the response arrived
SummaryThen(response) ==
    /\ IF response.success
       THEN dashboardStats' = response.data
       ELSE UNCHANGED dashboardStats
    /\ UNCHANGED error

\* fetchDashboardSummary, catch
SummaryCatch ==
    /\ error' = "Failed to fetch dashboard data"
    /\ UNCHANGED dashboardStats

SummaryResolved(k) ==
    /\ k \in DOMAIN inflight /\ inflight[k].kind = "summary"
    /\ \E i \in DOMAIN FetchAnswers(k) :
         LET response == FetchAnswers(k)[i] IN
         /\ SummaryThen(response)
         /\ last' = Step(IF response.success THEN "summaryOk" ELSE "summaryFailure")
    /\ inflight' = Settle(inflight, k)
    /\ UNCHANGED <<categories, quickStats, isLoading, showForm, editingCategory,
                   formData, mounted, writes, server>>

SummaryRejected(k) ==
    /\ k \in DOMAIN inflight /\ inflight[k].kind = "summary"
    /\ SummaryCatch
    /\ last' = Step("summaryRejected")
    /\ inflight' = Settle(inflight, k)
    /\ UNCHANGED <<categories, quickStats, isLoading, showForm, editingCategory,
                   formData, mounted, writes, server>>

\* a list fetch that empties the list when the response is not a success
ListThenDropsOnFailure(response) ==
    /\ categories' = IF response.success THEN response.data ELSE << >>
    /\ UNCHANGED error

\* fetchCategories after the await
ListThen(response) ==
    /\ IF response.success
       THEN categories' = response.data
       ELSE UNCHANGED categories
    /\ UNCHANGED error

\* fetchCategories, catch
ListCatch ==
    /\ error' = "Failed to fetch categories"
    /\ UNCHANGED categories

ListResolved(k) ==
    /\ k \in DOMAIN inflight /\ inflight[k].kind = "list"
    /\ \E i \in DOMAIN FetchAnswers(k) :
         LET response == FetchAnswers(k)[i] IN
         /\ ListThen(response)
         /\ last' = Step(IF response.success THEN "listOk" ELSE "listFailure")
    /\ inflight' = Settle(inflight, k)
    /\ UNCHANGED <<dashboardStats, quickStats, isLoading, showForm, editingCategory,
                   formData, mounted, writes, server>>

ListRejected(k) ==
    /\ k \in DOMAIN inflight /\ inflight[k].kind = "list"
    /\ ListCatch
    /\ last' = Step("listRejected")
    /\ inflight' = Settle(inflight, k)
    /\ UNCHANGED <<dashboardStats, quickStats, isLoading, showForm, editingCategory,
                   formData, mounted, writes, server>>

\* fetchQuickStats: no request, the placeholder is set at once
FetchQuickStats == quickStats' = PlaceholderQuickStats

-----------------------------------------------------------------------------
Init ==
    /\ categories = << >>
    /\ dashboardStats = InitialStats
    /\ quickStats = InitialQuickStats
    /\ isLoading = FALSE
    /\ error = ""
    /\ showForm = FALSE
    /\ editingCategory = NullCategory
    /\ formData = EmptyForm
    /\ mounted = FALSE
    /\ inflight = << >>
    /\ writes = 0
    /\ serverCats = InitialServerCats
    /\ serverNextId = 2
    /\ serverStats = ServerStats
    /\ last = [op |-> "init", from |-> "Idle"]

\* useEffect(() => { fetchDashboardSummary(); fetchCategories(); fetchQuickStats() }, [])
Mount ==
    /\ ~mounted
    /\ mounted' = TRUE
    /\ inflight' = FetchCategories(FetchDashboardSummary(inflight))
    /\ UNCHANGED writes
    /\ FetchQuickStats
    /\ last' = Step("mount")
    /\ UNCHANGED <<categories, dashboardStats, isLoading, error, showForm,
                   editingCategory, formData, server>>

-----------------------------------------------------------------------------
(* The form *)

\* the category rows rendered from `categories` (line 430)
Listed == {categories[i] : i \in 1..Len(categories)}

\* handleInputChange: setFormData((prev) => ({ ...prev, [name]: value }))
\* the inputs are disabled while isLoading (lines 381, 392, 406)
HandleInputChange(name, value) ==
    /\ mounted /\ showForm /\ ~isLoading
    /\ formData[name] # value
    /\ formData' = [formData EXCEPT ![name] = value]
    /\ last' = Step("input")
    /\ UNCHANGED <<categories, dashboardStats, quickStats, isLoading, error,
                   showForm, editingCategory, mounted, inflight, writes, server>>

\* a reset that leaves the edit target in place
ResetFormKeepsTarget ==
    /\ formData' = EmptyForm
    /\ showForm' = FALSE
    /\ error' = ""
    /\ UNCHANGED editingCategory

\* resetForm
ResetForm ==
    /\ formData' = EmptyForm
    /\ editingCategory' = NullCategory
    /\ showForm' = FALSE
    /\ error' = ""

\* the Cancel button: onClick={resetForm} disabled={isLoading}
Cancel ==
    /\ mounted /\ showForm /\ ~isLoading
    /\ ResetForm
    /\ last' = Step("cancel")
    /\ UNCHANGED <<categories, dashboardStats, quickStats, isLoading, mounted,
                   inflight, writes, server>>

\* the Add Category button: onClick={() => setShowForm(true)}
AddCategoryClick ==
    /\ showForm' = TRUE
    /\ UNCHANGED <<formData, editingCategory, error>>

AddCategory ==
    /\ mounted
    /\ AddCategoryClick
    /\ last' = Step("addCategory")
    /\ UNCHANGED <<categories, dashboardStats, quickStats, isLoading, mounted,
                   inflight, writes, server>>

\* startEdit(category)
StartEditBody(category) ==
    /\ editingCategory' = category
    /\ formData' = [category_name |-> category.category_name,
                    category_description |-> category.category_description,
                    who_edited |-> OrElse(category.who_edited, "")]
    /\ showForm' = TRUE
    /\ UNCHANGED error

\* the Edit button of a row: onClick={() => startEdit(category)}, never disabled
StartEdit(category) ==
    /\ mounted
    /\ category \in Listed
    /\ StartEditBody(category)
    /\ last' = Step("startEdit")
    /\ UNCHANGED <<categories, dashboardStats, quickStats, isLoading, mounted,
                   inflight, writes, server>>

-----------------------------------------------------------------------------
(* Create and update *)

\* the body both submits post: { ...formData, who_edited: formData.who_edited || 'Admin' }
SubmitBody == [formData EXCEPT !.who_edited = OrElse(formData.who_edited, "Admin")]

\* a submit button that is never disabled
SubmitAlwaysEnabled == TRUE

\* the submit button is disabled while isLoading (line 410)
SubmitEnabled == ~isLoading

\* category_name is `required` (line 380): the browser submits no form with an
\* empty name
CanSubmit ==
    /\ mounted /\ showForm
    /\ SubmitEnabled
    /\ formData.category_name # ""
    /\ writes < MaxWrites
    /\ Len(inflight) < MaxInFlight

\* handleCreateCategory up to the await (lines 156-164)
CreateStart(accepted) ==
    /\ isLoading' = TRUE
    /\ error' = ""
    /\ inflight' = Issue(inflight, "create", SubmitBody, accepted, OkBody(NoData))
    /\ writes' = writes + 1

\* onSubmit={editingCategory ? handleUpdateCategory : handleCreateCategory}
HandleCreateCategory ==
    /\ CanSubmit
    /\ editingCategory = NullCategory
    /\ \E accepted \in BOOLEAN :
         /\ CreateStart(accepted)
         /\ IF accepted THEN ServerCreate(SubmitBody) ELSE UNCHANGED server
    /\ last' = Step("createStart")
    /\ UNCHANGED <<categories, dashboardStats, quickStats, showForm,
                   editingCategory, formData, mounted>>

\* handleUpdateCategory up to the await (lines 189-199)
UpdateStart(accepted) ==
    /\ isLoading' = TRUE
    /\ error' = ""
    /\ inflight' = Issue(inflight, "update", editingCategory.category_id, accepted,
                          OkBody(NoData))
    /\ writes' = writes + 1

HandleUpdateCategory ==
    /\ CanSubmit
    /\ editingCategory # NullCategory
    /\ \E accepted \in BOOLEAN :
         /\ UpdateStart(accepted)
         /\ IF accepted
            THEN ServerUpdate(editingCategory.category_id, SubmitBody)
            ELSE UNCHANGED server
    /\ last' = Step("updateStart")
    /\ UNCHANGED <<categories, dashboardStats, quickStats, showForm,
                   editingCategory, formData, mounted>>

\* a create that forgets the summary refresh
AfterCreateWithoutSummary(fl) == FetchCategories(fl)

\* the requests issued when a create succeeded (lines 168-170)
AfterCreate(fl) == FetchDashboardSummary(FetchCategories(fl))

\* an update that refreshes the summary as create does
AfterUpdateWithSummary(fl) == FetchDashboardSummary(FetchCategories(fl))

\* the requests issued when an update succeeded (line 203)
AfterUpdate(fl) == FetchCategories(fl)

\* the message the catch of a submit surfaces (lines 176-182, 209-215); the
\* result is <<set, message>>: an `errors` map without entry makes firstError
\* undefined and firstError[0] throw, so that setError is not reached
RejectedMessage(err, generic) ==
    IF err.hasResponse /\ err.data.hasErrors
    THEN LET errors == err.data.errors
         IN  IF Len(errors) = 0
             THEN <<FALSE, "">>
             ELSE LET firstError == errors[1][2]
                  IN  IF Len(firstError) = 0
                      THEN <<TRUE, "Validation failed">>
                      ELSE <<TRUE, OrElse(firstError[1], "Validation failed")>>
    ELSE <<TRUE, OrElse(IF err.hasResponse THEN err.data.message ELSE Undefined,
                        generic)>>

\* the else branch of a submit (lines 172, 205)
FailureMessage(response, generic) == OrElse(response.message, generic)

\* finally { setIsLoading(false) }
SubmitFinally == isLoading' = FALSE

\* handleCreateCategory after the await: the response arrived (lines 166-173)
CreateThen(k, response) ==
    /\ IF response.success
       THEN /\ ResetForm
            /\ inflight' = AfterCreate(Settle(inflight, k))
       ELSE /\ error' = FailureMessage(response, "Failed to create category")
            /\ inflight' = Settle(inflight, k)
            /\ UNCHANGED <<formData, editingCategory, showForm>>
    /\ SubmitFinally

\* handleCreateCategory, catch (lines 174-182)
CreateCatch(k, err) ==
    /\ LET m == RejectedMessage(err, "Failed to create category")
       IN  IF m[1] THEN error' = m[2] ELSE UNCHANGED error
    /\ inflight' = Settle(inflight, k)
    /\ UNCHANGED <<formData, editingCategory, showForm>>
    /\ SubmitFinally

CreateResolved(k) ==
    /\ k \in DOMAIN inflight /\ inflight[k].kind = "create"
    /\ \E response \in Answers(k) :
         /\ CreateThen(k, response)
         /\ last' = Step(IF response.success THEN "createOk" ELSE "createFailure")
    /\ UNCHANGED <<categories, dashboardStats, quickStats, mounted, writes, server>>

CreateRejected(k) ==
    /\ k \in DOMAIN inflight /\ inflight[k].kind = "create"
    /\ \E err \in Rejections : CreateCatch(k, err)
    /\ last' = Step("createRejected")
    /\ UNCHANGED <<categories, dashboardStats, quickStats, mounted, writes, server>>

\* handleUpdateCategory after the await (lines 201-206)
UpdateThen(k, response) ==
    /\ IF response.success
       THEN /\ ResetForm
            /\ inflight' = AfterUpdate(Settle(inflight, k))
       ELSE /\ error' = FailureMessage(response, "Failed to update category")
            /\ inflight' = Settle(inflight, k)
            /\ UNCHANGED <<formData, editingCategory, showForm>>
    /\ SubmitFinally

\* handleUpdateCategory, catch (lines 207-215)
UpdateCatch(k, err) ==
    /\ LET m == RejectedMessage(err, "Failed to update category")
       IN  IF m[1] THEN error' = m[2] ELSE UNCHANGED error
    /\ inflight' = Settle(inflight, k)
    /\ UNCHANGED <<formData, editingCategory, showForm>>
    /\ SubmitFinally

UpdateResolved(k) ==
    /\ k \in DOMAIN inflight /\ inflight[k].kind = "update"
    /\ \E response \in Answers(k) :
         /\ UpdateThen(k, response)
         /\ last' = Step(IF response.success THEN "updateOk" ELSE "updateFailure")
    /\ UNCHANGED <<categories, dashboardStats, quickStats, mounted, writes, server>>

UpdateRejected(k) ==
    /\ k \in DOMAIN inflight /\ inflight[k].kind = "update"
    /\ \E err \in Rejections : UpdateCatch(k, err)
    /\ last' = Step("updateRejected")
    /\ UNCHANGED <<categories, dashboardStats, quickStats, mounted, writes, server>>

-----------------------------------------------------------------------------
(* Archive *)

\* the requests issued when an archive succeeded (lines 226-228)
AfterArchive(fl) == FetchDashboardSummary(FetchCategories(fl))

\* an archive that posts without looking at the answer of confirm()
DeleteStartUnconfirmed(id, confirmed, accepted) ==
    /\ inflight' = Issue(inflight, "archive", id, accepted, OkBody(NoData))
    /\ writes' = writes + 1

\* handleDeleteCategory up to the await: if (!confirm(...)) return, then the post
DeleteStart(id, confirmed, accepted) ==
    IF ~confirmed
    THEN UNCHANGED <<inflight, writes>>
    ELSE /\ inflight' = Issue(inflight, "archive", id, accepted, OkBody(NoData))
         /\ writes' = writes + 1

\* the trash button of a row: onClick={() => handleDeleteCategory(category.category_id)}
HandleDeleteCategory(id, confirmed) ==
    /\ mounted
    /\ \E c \in Listed : c.category_id = id
    /\ confirmed => writes < MaxWrites /\ Len(inflight) < MaxInFlight
    /\ \E accepted \in {confirmed, FALSE} :
         /\ DeleteStart(id, confirmed, accepted)
         /\ IF accepted THEN ServerArchive(id) ELSE UNCHANGED server
    /\ last' = Step(IF confirmed THEN "deleteStart" ELSE "deleteDeclined")
    /\ UNCHANGED <<client, mounted>>

\* handleDeleteCategory after the await (lines 225-229)
DeleteThen(k, response) ==
    /\ IF response.success
       THEN inflight' = AfterArchive(Settle(inflight, k))
       ELSE inflight' = Settle(inflight, k)
    /\ UNCHANGED error

\* handleDeleteCategory, catch (lines 230-233)
DeleteCatch(k) ==
    /\ error' = "Failed to delete category"
    /\ inflight' = Settle(inflight, k)

DeleteResolved(k) ==
    /\ k \in DOMAIN inflight /\ inflight[k].kind = "archive"
    /\ \E response \in Answers(k) :
         /\ DeleteThen(k, response)
         /\ last' = Step(IF response.success THEN "deleteOk" ELSE "deleteFailure")
    /\ UNCHANGED <<categories, dashboardStats, quickStats, isLoading, showForm,
                   editingCategory, formData, mounted, writes, server>>

DeleteRejected(k) ==
    /\ k \in DOMAIN inflight /\ inflight[k].kind = "archive"
    /\ DeleteCatch(k)
    /\ last' = Step("deleteRejected")
    /\ UNCHANGED <<categories, dashboardStats, quickStats, isLoading, showForm,
                   editingCategory, formData, mounted, writes, server>>

-----------------------------------------------------------------------------
\* the fields the user types into
TypedFields == {"category_name"}

Next ==
    \/ Mount
    \/ \E name \in TypedFields, value \in InputValues : HandleInputChange(name, value)
    \/ Cancel
    \/ AddCategory
    \/ \E category \in Listed : StartEdit(category)
    \/ HandleCreateCategory
    \/ HandleUpdateCategory
    \/ \E id \in 1..(serverNextId - 1), confirmed \in BOOLEAN :
          HandleDeleteCategory(id, confirmed)
    \/ \E k \in DOMAIN inflight : SummaryResolved(k)
    \/ \E k \in DOMAIN inflight : SummaryRejected(k)
    \/ \E k \in DOMAIN inflight : ListResolved(k)
    \/ \E k \in DOMAIN inflight : ListRejected(k)
    \/ \E k \in DOMAIN inflight : CreateResolved(k)
    \/ \E k \in DOMAIN inflight : CreateRejected(k)
    \/ \E k \in DOMAIN inflight : UpdateResolved(k)
    \/ \E k \in DOMAIN inflight : UpdateRejected(k)
    \/ \E k \in DOMAIN inflight : DeleteResolved(k)
    \/ \E k \in DOMAIN inflight : DeleteRejected(k)

Spec == Init /\ [][Next]_vars
-----------------------------------------------------------------------------
(* Derived metrics: what a render computes from dashboardStats.  A number   *)
(* is an IEEE-754 double; / and * round their exact result to the nearest   *)
(* double, ties to even.  A positive double is its significand, Precision   *)
(* bits with the most significant first, and the exponent of that first     *)
(* bit: the value is the sum of bits[i] * 2^(exp - i + 1).                  *)

\* significant bits of a double
Precision == 53

\* the largest count of books the server reports
MaxBooks == 100

Zero == [bits |-> [i \in 1..Precision |-> 0], exp |-> 0]

IsZero(x) == x.bits[1] = 0

\* bs + 1 on a bit string that is not all ones
Increment(bs) ==
    LET k == CHOOSE i \in DOMAIN bs :
                 bs[i] = 0 /\ \A j \in DOMAIN bs : j > i => bs[j] = 1
    IN [i \in DOMAIN bs |-> IF i < k THEN bs[i] ELSE IF i = k THEN 1 ELSE 0]

\* the double nearest to the exact value whose bits are bs (most significant
\* first, bs[1] = 1, worth 2^exp) followed by further bits that are all zero
\* unless `sticky`; ties go to the even significand
RoundToNearestEven(bs, exp, sticky) ==
    IF Len(bs) <= Precision
    THEN [bits |-> [i \in 1..Precision |-> IF i <= Len(bs) THEN bs[i] ELSE 0],
          exp |-> exp]
    ELSE LET kept == SubSeq(bs, 1, Precision)
             guard == bs[Precision + 1]
             rest == sticky \/ \E i \in (Precision + 2)..Len(bs) : bs[i] = 1
             up == guard = 1 /\ (rest \/ kept[Precision] = 1)
         IN IF ~up THEN [bits |-> kept, exp |-> exp]
            ELSE IF \A i \in 1..Precision : kept[i] = 1
            THEN [bits |-> [i \in 1..Precision |-> IF i = 1 THEN 1 ELSE 0],
                  exp |-> exp + 1]
            ELSE [bits |-> Increment(kept), exp |-> exp]

RECURSIVE LongDivision(_, _, _)
\* the next n bits of r / d (r < d) and the remainder after them, the first
\* half of the bits before the second
LongDivision(r, d, n) ==
    IF n = 1
    THEN LET b == IF 2 * r >= d THEN 1 ELSE 0
         IN [bits |-> <<b>>, rem |-> 2 * r - b * d]
    ELSE LET first == LongDivision(r, d, n \div 2)
             second == LongDivision(first.rem, d, n - n \div 2)
         IN [bits |-> first.bits \o second.bits, rem |-> second.rem]

RECURSIVE Exponent(_, _, _)
\* the e with 2^e <= a / t < 2^(e + 1), searched from e away from zero
Exponent(a, t, e) ==
    IF e >= 0
    THEN IF t * 2^(e + 1) <= a THEN Exponent(a, t, e + 1) ELSE e
    ELSE IF a * 2^(-e) < t THEN Exponent(a, t, e - 1) ELSE e

\* a / t on the integers a >= 0 and t > 0
Divide(a, t) ==
    IF a = 0 THEN Zero
    ELSE LET e == Exponent(a, t, IF a >= t THEN 0 ELSE -1)
             n == IF e >= 0 THEN a ELSE a * 2^(-e)
             d == IF e >= 0 THEN t * 2^e ELSE t
             q == LongDivision(n - d, d, Precision)
         IN RoundToNearestEven(<<1>> \o q.bits, e, q.rem # 0)

\* the n bits of v < 2^n
IntToBits(v, n) == [i \in 1..n |-> (v \div 2^(n - i)) % 2]

\* how many bits v takes
BitLength(v) == IF v = 0 THEN 0 ELSE 1 + CHOOSE n \in 0..30 : 2^n <= v /\ v < 2^(n + 1)

Reverse(bs) == [i \in 1..Len(bs) |-> bs[Len(bs) + 1 - i]]

RECURSIVE TimesBits(_, _, _)
\* the low Len(bs) bits of bs * c + carry and the carry out of them, on bits
\* that run from the least significant up
TimesBits(bs, c, carry) ==
    IF Len(bs) = 1
    THEN LET s == bs[1] * c + carry
         IN [bits |-> <<s % 2>>, carry |-> s \div 2]
    ELSE LET h == Len(bs) \div 2
             low == TimesBits(SubSeq(bs, 1, h), c, carry)
             high == TimesBits(SubSeq(bs, h + 1, Len(bs)), c, low.carry)
         IN [bits |-> low.bits \o high.bits, carry |-> high.carry]

\* x * c for a double x and a small positive integer c
Times(x, c) ==
    IF IsZero(x) THEN Zero
    ELSE LET p == TimesBits(Reverse(x.bits), c, 0)
             top == BitLength(p.carry)
         IN RoundToNearestEven(IntToBits(p.carry, top) \o Reverse(p.bits),
                               x.exp + top, FALSE)

RECURSIVE BitsToInt(_)
BitsToInt(bs) ==
    IF Len(bs) = 0 THEN 0
    ELSE 2 * BitsToInt(SubSeq(bs, 1, Len(bs) - 1)) + bs[Len(bs)]

\* Math.round(x) on a double x >= 0 below 2^31: the nearest integer, a half
\* going up
MathRound(x) ==
    IF IsZero(x) \/ x.exp < -1 THEN 0
    ELSE IF x.exp = -1 THEN 1
    ELSE BitsToInt(SubSeq(x.bits, 1, x.exp + 1)) + x.bits[x.exp + 2]

availabilityPercentage ==
    IF dashboardStats.total_books > 0
    THEN MathRound(Times(Divide(dashboardStats.available_books,
                                dashboardStats.total_books), 100))
    ELSE 0

\* the Borrowed Books figure
BorrowedBooks == dashboardStats.total_books - dashboardStats.available_books

\* Library Health
HealthLabel ==
    IF availabilityPercentage >= 70 THEN "Excellent"
    ELSE IF availabilityPercentage >= 40 THEN "Good"
    ELSE "Needs Attention"

\* Library is ...
StockLabel == IF availabilityPercentage >= 50 THEN "well-stocked" ELSE "getting busy"

\* the summaries a server can report
StatsInputs ==
    [total_books : 0..MaxBooks, available_books : 0..MaxBooks,
     active_borrowers : {ServerStats.active_borrowers},
     total_transactions : {ServerStats.total_transactions}]

\* the view in front of a server that reports any summary
MetricsInit ==
    \E stats \in StatsInputs :
        /\ categories = << >>
        /\ dashboardStats = InitialStats
        /\ quickStats = InitialQuickStats
        /\ isLoading = FALSE
        /\ error = ""
        /\ showForm = FALSE
        /\ editingCategory = NullCategory
        /\ formData = EmptyForm
        /\ mounted = FALSE
        /\ inflight = << >>
        /\ writes = 0
        /\ serverCats = InitialServerCats
        /\ serverNextId = 2
        /\ serverStats = stats
        /\ last = [op |-> "init", from |-> "Idle"]

MetricsNext ==
    \/ Mount
    \/ \E k \in DOMAIN inflight : SummaryResolved(k)

MetricsSpec == MetricsInit /\ [][MetricsNext]_vars
-----------------------------------------------------------------------------
(* Properties *)

\* how many requests of `kind` are in flight
InFlight(kind) == Len(OfKind(inflight, kind))

FormCleared ==
    /\ formData = EmptyForm
    /\ editingCategory = NullCategory
    /\ ~showForm

\* the step issued exactly `n` requests of `kind` (the one request a step
\* settles is of the kind `settled`)
IssuedBy(kind, settled, n) ==
    InFlight(kind)' = InFlight(kind) - (IF kind = settled THEN 1 ELSE 0) + n

\* C1: when the response of a create arrives with success, the form is cleared
\* and hidden (the three fields empty, no edit target, view Idle) and the step
\* issues one category-list fetch and one dashboard-summary fetch, whatever
\* the state it is taken in.
C1_CreateSuccess ==
    [][last'.op = "createOk" =>
          /\ FormCleared'
          /\ View' = "Idle"
          /\ IssuedBy("list", "create", 1)
          /\ IssuedBy("summary", "create", 1)
          /\ Len(inflight') = Len(inflight) + 1]_vars

C1_Witness ==
    /\ last.op = "createOk"
    /\ FormCleared
    /\ InFlight("list") >= 1
    /\ InFlight("summary") >= 1

\* C2: when the response of an update arrives with success, the step issues one
\* category-list fetch and no dashboard-summary fetch: the summary requests in
\* flight are the same before and after.
C2_UpdateSuccess ==
    [][last'.op = "updateOk" =>
          /\ IssuedBy("list", "update", 1)
          /\ OfKind(inflight', "summary") = OfKind(inflight, "summary")
          /\ Len(inflight') = Len(inflight)]_vars

C2_Witness ==
    /\ last.op = "updateOk"
    /\ InFlight("list") >= 1
    /\ InFlight("summary") = 0

\* the await of the i-th request in flight can return now
CanComplete(i) ==
    CASE inflight[i].kind = "summary" -> ENABLED SummaryResolved(i)
      [] inflight[i].kind = "list"    -> ENABLED ListResolved(i)
      [] OTHER                        -> TRUE

\* C3: a step issues an archive request only when the user confirmed the prompt
\* of that call, a declined prompt issues nothing; when the response of an
\* archive arrives with success the step issues one category-list fetch and
\* one dashboard-summary fetch, two requests; and whichever fetches are in
\* flight, each of them can complete next, so the two complete in either order.
C3_Archive ==
    /\ [][/\ InFlight("archive")' > InFlight("archive") => last'.op = "deleteStart"
          /\ last'.op = "deleteDeclined" => inflight' = inflight
          /\ last'.op = "deleteOk" =>
                /\ IssuedBy("list", "archive", 1)
                /\ IssuedBy("summary", "archive", 1)
                /\ Len(inflight') = Len(inflight) + 1
                /\ inflight'[Len(inflight')].kind # inflight'[Len(inflight') - 1].kind]_vars
    /\ [](\A i \in DOMAIN inflight : CanComplete(i))

C3_Witness ==
    /\ last.op = "deleteOk"
    /\ InFlight("list") >= 1
    /\ InFlight("summary") >= 1
    /\ InFlight("archive") = 0
\* C4: for the summary fetch, the category-list fetch and the archive, a response
\* with success = false leaves the same shared error message as a rejected
\* request of that operation does.
C4_FailureSurfaced ==
    /\ last.op \in {"summaryFailure", "summaryRejected"} =>
          error = "Failed to fetch dashboard data"
    /\ last.op \in {"listFailure", "listRejected"} =>
          error = "Failed to fetch categories"
    /\ last.op \in {"deleteFailure", "deleteRejected"} =>
          error = "Failed to delete category"

\* C5: dashboardStats changes only in the step in which a summary fetch returns
\* with success, and then to the data of that response; the category list only
\* in the step in which a list fetch returns with success, and then to the data
\* of that response.  No failed operation and no response of a create, update
\* or archive changes either of them.
C5_ReplacedOnlyByFetch ==
    [][/\ dashboardStats' # dashboardStats =>
             /\ last'.op = "summaryOk"
             /\ \E i \in DOMAIN inflight :
                   /\ inflight[i].kind = "summary"
                   /\ inflight' = Settle(inflight, i)
                   /\ dashboardStats' = inflight[i].body.data
       /\ categories' # categories =>
             /\ last'.op = "listOk"
             /\ \E i \in DOMAIN inflight :
                   /\ inflight[i].kind = "list"
                   /\ inflight' = Settle(inflight, i)
                   /\ categories' = inflight[i].body.data]_vars

\* an archive succeeded on the server and in the view, and the archived
\* category is still in the local list
C5_Witness ==
    /\ last.op = "deleteOk"
    /\ Len(categories) = 1
    /\ categories[1].category_id \notin ServerIds

\* the body carries an errors map whose first field has a first message
HasFirstMessage(body) ==
    /\ body.hasErrors
    /\ Len(body.errors) > 0
    /\ Len(body.errors[1][2]) > 0

FirstMessage(body) == body.errors[1][2][1]

\* what C6 says a failed submit leaves, given the body of the failure
SubmitFailureShown(body) ==
    /\ HasFirstMessage(body) => error' = FirstMessage(body)
    /\ ~body.hasErrors => error' # ""
    /\ showForm' = showForm
    /\ formData' = formData
    /\ editingCategory' = editingCategory

\* C6: when a create or an update fails and the failure carries an errors map,
\* the shared error becomes the first message of the first field of the map,
\* otherwise a generic message; the form stays as it was.  This holds for a
\* response with success = false and for a rejected request alike.
C6_SubmitFailure ==
    [][\A i \in DOMAIN inflight :
         /\ \A r \in FailureBodies :
               (/\ inflight[i].kind = "create" /\ ~inflight[i].accepted
                /\ CreateThen(i, r)) => SubmitFailureShown(r)
         /\ \A r \in FailureBodies :
               (/\ inflight[i].kind = "update" /\ ~inflight[i].accepted
                /\ UpdateThen(i, r)) => SubmitFailureShown(r)
         /\ \A e \in Rejections :
               (/\ inflight[i].kind = "create" /\ e.hasResponse
                /\ CreateCatch(i, e)) => SubmitFailureShown(e.data)
         /\ \A e \in Rejections :
               (/\ inflight[i].kind = "update" /\ e.hasResponse
                /\ UpdateCatch(i, e)) => SubmitFailureShown(e.data)]_vars

\* C7: cancel returns the view to Idle with the form cleared and issues no
\* request, also right after startEdit; startEdit issues no request, puts the
\* view in Editing, and changes nothing but the edit target and the fields,
\* which it fills from the chosen category, whether or not an edit was open.
C7_EditCancel ==
    [][/\ last'.op = "cancel" =>
             /\ View' = "Idle"
             /\ FormCleared'
             /\ UNCHANGED <<inflight, writes>>
       /\ last'.op = "startEdit" =>
             /\ View' = "Editing"
             /\ editingCategory' \in Listed
             /\ formData'.category_name = editingCategory'.category_name
             /\ formData'.category_description = editingCategory'.category_description
             /\ UNCHANGED <<inflight, writes, error, isLoading, categories,
                            dashboardStats>>]_vars

\* the user opened an edit and cancelled it
C7_Witness ==
    /\ last = [op |-> "cancel", from |-> "Editing"]
    /\ View = "Idle"
    /\ FormCleared

\* C8: after the Add Category button the view is in Creating mode, from any
\* state: the form is visible and there is no edit target; and when the button
\* switched the view to Creating, from Idle or from Editing, the three fields
\* are empty.
C8_AddCategoryCreates ==
    last.op = "addCategory" =>
        /\ View = "Creating"
        /\ editingCategory = NullCategory
        /\ last.from # "Creating" => formData = EmptyForm

\* C9: the shared error is emptied exactly when the form is opened or a submit
\* succeeds, and starting a fetch, an archive or a submit leaves it alone.
C9_ErrorReset ==
    [][/\ last'.op \in {"addCategory", "startEdit", "createOk", "updateOk"} =>
             error' = ""
       /\ (error # "" /\ error' = "") =>
             last'.op \in {"addCategory", "startEdit", "createOk", "updateOk"}
       /\ last'.op \in {"mount", "createStart", "updateStart", "deleteStart"} =>
             error' = error]_vars

\* the create and update requests in flight
SubmitsInFlight == InFlight("create") + InFlight("update")

\* C10: at most one create or update request is in flight, and isLoading is
\* true exactly while one is: from the start of the submit until its response
\* or rejection arrived.
C10_OneSubmit ==
    /\ SubmitsInFlight <= 1
    /\ isLoading <=> SubmitsInFlight = 1

\* a second submit is in flight after the first one was rejected
C10_Witness ==
    /\ isLoading
    /\ writes = 2
    /\ InFlight("archive") = 0
    /\ last.op \in {"createStart", "updateStart"}
    /\ error = ""

\* 100 * available_books / total_books rounded to the nearest integer, a half
\* going up; 0 without books
RoundedPercentage ==
    IF dashboardStats.total_books > 0
    THEN (200 * dashboardStats.available_books + dashboardStats.total_books)
             \div (2 * dashboardStats.total_books)
    ELSE 0

\* C11: for every summary with non-negative integer fields the availability
\* percentage is round(100 * available_books / total_books), and 0 when there
\* are no books; the health label is "Needs Attention" below 40, "Good" from 40
\* up to 70 and "Excellent" from 70; the stock label is "well-stocked" from 50
\* and "getting busy" below; 45 of 100 gives 45, "Good" and 55 borrowed, and no
\* books give 0, "Needs Attention" and 0 borrowed.
C11_DerivedMetrics ==
    LET p == availabilityPercentage IN
    /\ p = RoundedPercentage
    /\ HealthLabel = (IF p < 40 THEN "Needs Attention"
                      ELSE IF p < 70 THEN "Good" ELSE "Excellent")
    /\ StockLabel = (IF p >= 50 THEN "well-stocked" ELSE "getting busy")
    /\ dashboardStats.total_books = 100 /\ dashboardStats.available_books = 45
           => p = 45 /\ HealthLabel = "Good" /\ BorrowedBooks = 55
    /\ dashboardStats.total_books = 0
           => /\ p = 0 /\ HealthLabel = "Needs Attention"
              /\ dashboardStats.available_books = 0 => BorrowedBooks = 0

\* the step leaves in flight, in their order, the requests fl was made of
StillInFlight(fl) ==
    /\ Len(inflight') >= Len(fl)
    /\ \A j \in 1..Len(fl) :
          inflight'[j].kind = fl[j].kind /\ inflight'[j] = fl[j]

\* the fetch i can complete next with success, and then its own data is shown
CanOverwrite(i) ==
    CASE inflight[i].kind = "summary" ->
             ENABLED (SummaryResolved(i) /\ dashboardStats' = inflight[i].body.data)
      [] inflight[i].kind = "list" ->
             ENABLED (ListResolved(i) /\ categories' = inflight[i].body.data)
      [] OTHER -> TRUE

\* C12: fetch responses are applied in completion order, without cancellation
\* or sequencing: a step takes out of flight at most the one request it
\* completes, so a fetch issued later never cancels an earlier one; every fetch
\* in flight, whatever was issued or has completed after it, can complete next
\* with success; and the completion of a fetch with success puts the data of
\* that very request on display, over whatever a later-issued fetch put there,
\* and leaves the other resources' values alone.
C12_CompletionOrder ==
    /\ [][/\ \E k \in 0..Len(inflight) :
                StillInFlight(IF k = 0 THEN inflight ELSE Settle(inflight, k))
          /\ last'.op = "listOk" =>
                /\ \E k \in DOMAIN inflight :
                      /\ inflight[k].kind = "list"
                      /\ inflight' = Settle(inflight, k)
                      /\ categories' = inflight[k].body.data
                /\ UNCHANGED <<dashboardStats, quickStats>>
          /\ last'.op = "summaryOk" =>
                /\ \E k \in DOMAIN inflight :
                      /\ inflight[k].kind = "summary"
                      /\ inflight' = Settle(inflight, k)
                      /\ dashboardStats' = inflight[k].body.data
                /\ UNCHANGED <<categories, quickStats>>]_vars
    /\ [](\A i \in DOMAIN inflight : CanOverwrite(i))

\* the list shown comes from a fetch that completed last but was issued before
\* the category under edit was created: that category is on the server, was
\* on display when Edit was clicked, and is not in the list any more
C12_Witness ==
    /\ last.op = "listOk"
    /\ InFlight("list") = 0
    /\ editingCategory # NullCategory
    /\ editingCategory.category_id \in ServerIds
    /\ \A i \in DOMAIN categories :
          categories[i].category_id # editingCategory.category_id

\* the local list shows a category with this id
ListedId(id) == \E c \in Listed : c.category_id = id

\* C13: whenever the form is in Editing mode the edit target is a category of
\* the local list; and an update request is never issued for a category that
\* was archived and that the refreshed list does not show any more.
C13_EditTargetListed ==
    /\ View = "Editing" => ListedId(editingCategory.category_id)
    /\ last.op = "updateStart" =>
          \/ inflight[Len(inflight)].arg \in ServerIds
          \/ ListedId(inflight[Len(inflight)].arg)

\* C14: while a create or update request is in flight the form fields and the
\* edit target do not change: a step taken with a submit in flight that leaves
\* it in flight changes neither, so the completion finds the form that was
\* submitted.
C14_FormFrozenInFlight ==
    [][SubmitsInFlight > 0 /\ SubmitsInFlight' > 0 =>
          UNCHANGED <<formData, editingCategory>>]_vars
====
